---- MODULE Spec2Model ----
(***************************************************************************)
(* Remote Dev laptop server: the WebSocket control plane                   *)
(* (laptop-server/src/websocket.js), the message handlers of index.js and  *)
(* the Gemini process runner (laptop-server/src/gemini.js).                *)
(*                                                                         *)
(* Node runs every listener to completion and drains the microtask queue   *)
(* before the next I/O event, so one action below is one I/O event (a      *)
(* frame, a socket close, a git command settling, a chunk of subprocess    *)
(* output, a subprocess close) together with the promise continuations it  *)
(* makes runnable.                                                         *)
(***************************************************************************)
EXTENDS Integers, Sequences, FiniteSets, TLC

\* ---------------------------------------------------------------- bounds
MaxFrames == 3
MaxChunks == 1

Conns == {1, 2}
Frames == 1..MaxFrames

\* ------------------------------------------------------------ input sets
SharedSecret == "s3cret"
Secrets == {SharedSecret, "wrong"}
Targets == {"o/a", "o/b"}
Prompts == {"add README"}
\* chunks holding a substring the runner treats as noise
NoiseChunks == {"Loaded cached credentials"}
StdoutChunks == {"OK", " "} \cup NoiseChunks
StderrChunks == {"warn"} \cup NoiseChunks
NoPayload == "undefined"

\* own properties of the wsHandlers object literal
HandlerKinds ==
    {"clone_repo", "get_commits", "get_diff", "execute_command",
     "commit_changes", "rollback", "cancel"}
\* properties every object literal inherits from Object.prototype
InheritedKinds == {"toString", "hasOwnProperty"}
UnknownKinds == {"bogus"}
GitKinds == {"clone_repo", "get_commits", "get_diff", "commit_changes", "rollback"}
\* under Spec: the kinds sent before authentication and without a payload,
\* the target addressed and what the process writes
ProbeKinds == {"execute_command", "bogus"}
NoPayloadKinds == {"clone_repo", "cancel"}
SpecTargets == {"o/a"}
SpecStdout == StdoutChunks \ ({" "} \cup NoiseChunks)
SpecStderr == StderrChunks \ NoiseChunks
GitValues ==
    {"cloned", "pulled", "commits", "diff", "committed:true",
     "committed:false", "success:true"}

VARIABLES
    readyState,     \* ws.readyState of each connection's socket
    clients,        \* keys of WebSocketHandler.clients
    authenticated,  \* client.authenticated of each connection
    sent,           \* what ws.send put on the wire, per connection, in order
    handled,        \* one record per 'message' event, in arrival order
    serverUp,       \* the hosting process is alive
    histories,      \* GeminiRunner.histories
    activeProcess,  \* GeminiRunner.activeProcess (0 is null)
    exists,         \* fs.existsSync(repoPath) per target
    repos,          \* per target: the branch here and at the origin, index, files
    geminiAvailable, \* start(): what isAvailable resolved with, and its probe
    \* the web app's useWebSocket hook
    wsRef,          \* wsRef.current: a transport, or 0 for null
    ws,             \* every WebSocket the hook created: readyState, established
    reconnectTimeoutRef, \* reconnectTimeoutRef.current (0 is null)
    timers,         \* the reconnect timers that are set and have not fired
    messageHandlers, \* messageHandlersRef.current: the handlers of each kind
    regs,           \* every onMessage call so far: what its unsubscribe closes over
    requests,       \* every request call so far: its promise and its timer
    wire,           \* what the hook sent on each transport, in order
    serverOps,      \* frames the server received and has not answered yet
    isConnected, isAuthenticated, lastMessage, error,  \* the hook's React state
    userClosed,     \* the caller's last call of connect/disconnect was disconnect
    unsubscribed,   \* the registrations whose unsubscribe function the page called
    delivery        \* the handlers subscribed, and those invoked, for lastMessage

serverVars == <<readyState, clients, authenticated, sent, handled, serverUp,
                histories, activeProcess, exists, geminiAvailable, repos>>

clientVars == <<wsRef, ws, reconnectTimeoutRef, timers, messageHandlers, regs,
                requests, wire, serverOps, isConnected, isAuthenticated,
                lastMessage, error, userClosed, unsubscribed, delivery>>

vars == <<serverVars, clientVars>>

\* ---------------------------------------------------------------- values
\* A wire message. frame is the 'message' event that caused it (0: none) and
\* seq the position of a progress event among those its handler emitted.
Msg(type, f, seq, stage, stream, text, orig) ==
    [type |-> type, frame |-> f, seq |-> seq, stage |-> stage,
     stream |-> stream, text |-> text, originalType |-> orig]

Plain(type, f, text) == Msg(type, f, 0, "-", "-", text, "-")

\* h is an initial part of g
IsPrefix(h, g) == Len(h) <= Len(g) /\ SubSeq(g, 1, Len(h)) = h

\* ------------------------------------------------- files and commits
\* The paths of a working directory: 0 is a source file the branch tracks,
\* f > 0 the prompt file .gemini_input_<Date.now()>.txt of the execute that
\* frame f caused. A tree gives each path the version of its content, 0
\* for no file.
Paths == 0..MaxFrames
NoFiles == [p \in Paths |-> 0]
Tree(v) == [NoFiles EXCEPT ![0] = v]
Commit(by, tree) == [by |-> by, tree |-> tree]
\* no commit: the hash of a call that has none, or one git does not know
NoCommit == Commit(0, NoFiles)
\* the branch as the origin holds it when the server starts
Origin == <<Commit(0, Tree(1)), Commit(0, Tree(2))>>
\* under Spec: the commit a rollback names
SpecHashes == {Origin[1]}
\* the version of the source file that the process of frame f writes
Edited(f) == 3 + f
\* the commits a rollback names: one of the branch, one git does not know
Hashes == {Origin[1], NoCommit}

\* The bookkeeping of one 'message' event: the frame as parsed, the position
\* of handleMessage and of the handler it awaits, and the child process the
\* handler spawned. For a call of execute: the prompt file it wrote, the
\* position of the user turn it pushed, its promise, what the process wrote
\* (written), what went to onOutput and what was echoed to the console.
\* For a call of GitManager: the commit hash it was given, what git status
\* listed, the commits it created and what it pushed, and the log it read.
NewRec(c, parsed, type, payload, prompt) ==
    [conn |-> c, parsed |-> parsed, type |-> type, payload |-> payload,
     prompt |-> prompt, authed |-> authenticated[c], handler |-> FALSE,
     pc |-> "done", outcome |-> "none", result |-> "-", emitted |-> 0,
     op |-> "-", proc |-> "none", output |-> <<>>, nchunks |-> 0,
     killed |-> FALSE, code |-> "-", fullPrompt |-> <<>>, turn |-> 0,
     promise |-> "none", written |-> <<>>, onOutput |-> <<>>, echo |-> <<>>,
     hash |-> NoCommit, files |-> {}, made |-> <<>>, pushed |-> <<>>,
     log |-> <<>>]

\* ------------------------------------------------- WebSocketHandler.send
\* variant: the state of the socket is not tested
SendUnchecked(ob, c, msgs) == [ob EXCEPT ![c] = @ \o msgs]

Send(ob, c, msgs) ==
    IF readyState[c] = "OPEN" THEN [ob EXCEPT ![c] = @ \o msgs] ELSE ob

\* one send per socket in cs
SendEach(ob, cs, msgs) ==
    [d \in Conns |-> IF d \in cs THEN Send(ob, d, msgs)[d] ELSE ob[d]]

\* ------------------------------------------------------------- start()
\* no version probe has run and isAvailable has not resolved
NotProbed == [probe |-> "none", value |-> "-"]

\* GeminiRunner.isAvailable: resolves true, and spawns no probe
IsAvailable == [probe |-> "none", value |-> "true"]

\* server.listen has been called: start() calls it once isAvailable resolved
Listening == geminiAvailable.value # "-"

\* start(): await geminiRunner.isAvailable(), then server.listen
Start ==
    /\ serverUp
    /\ ~Listening
    /\ geminiAvailable' = IsAvailable
    /\ UNCHANGED clientVars
    /\ UNCHANGED <<readyState, clients, authenticated, sent, handled, serverUp,
                   histories, activeProcess, exists, repos>>

\* ------------------------------------------ wss.on('connection') / close
OnConnection(c) ==
    /\ serverUp
    /\ Listening
    /\ readyState[c] = "NONE"
    /\ \A d \in Conns : d < c => readyState[d] # "NONE"
    /\ readyState' = [readyState EXCEPT ![c] = "OPEN"]
    /\ clients' = clients \cup {c}
    /\ authenticated' = [authenticated EXCEPT ![c] = FALSE]
    /\ sent' = [sent EXCEPT ![c] = @ \o <<Plain("welcome", 0, "Please authenticate")>>]
    /\ UNCHANGED <<clientVars, geminiAvailable>>
    /\ UNCHANGED <<handled, serverUp, histories, activeProcess, exists, repos>>

OnClose(c) ==
    /\ serverUp
    /\ readyState[c] = "OPEN"
    /\ readyState' = [readyState EXCEPT ![c] = "CLOSED"]
    /\ clients' = clients \ {c}
    /\ UNCHANGED <<clientVars, geminiAvailable>>
    /\ UNCHANGED <<authenticated, sent, handled, serverUp, histories,
                   activeProcess, exists, repos>>

\* ------------------------------------------------------ ws.on('message')
\* variant: a frame waits for the handlers of the frames before it on its
\* connection
CanReceiveSerial(c) ==
    /\ serverUp
    /\ readyState[c] = "OPEN"
    /\ Len(handled) < MaxFrames
    /\ \A f \in 1..Len(handled) : handled[f].conn = c => handled[f].pc = "done"

CanReceive(c) ==
    /\ serverUp
    /\ readyState[c] = "OPEN"
    /\ Len(handled) < MaxFrames

ThisFrame == Len(handled) + 1

\* variant: a fault escapes its listener and ends the process
AfterFaultUncaught(up) == FALSE

\* the catch blocks of the listener and of handleMessage keep the fault in
AfterFault(up) == up

\* variant: a frame that does not parse ends the connection
OnMalformedCloses(c) ==
    /\ CanReceive(c)
    /\ handled' = Append(handled, NewRec(c, FALSE, "-", NoPayload, "-"))
    /\ sent' = Send(sent, c, <<Plain("error", ThisFrame, "Invalid message format")>>)
    /\ readyState' = [readyState EXCEPT ![c] = "CLOSED"]
    /\ clients' = clients \ {c}
    /\ UNCHANGED <<clientVars, geminiAvailable>>
    /\ UNCHANGED <<authenticated, serverUp, histories, activeProcess, exists, repos>>

\* JSON.parse throws, or the parsed value cannot be destructured
OnMalformed(c) ==
    /\ CanReceive(c)
    /\ handled' = Append(handled, NewRec(c, FALSE, "-", NoPayload, "-"))
    /\ sent' = Send(sent, c, <<Plain("error", ThisFrame, "Invalid message format")>>)
    /\ serverUp' = AfterFault(serverUp)
    /\ UNCHANGED <<clientVars, geminiAvailable>>
    /\ UNCHANGED <<readyState, clients, authenticated, histories, activeProcess, exists, repos>>

SecretMatches(secret) == secret = SharedSecret

\* variant: the flag is assigned the outcome of the comparison
AuthFlagAssigned(old, match) == match

AuthFlagAfter(old, match) == IF match THEN TRUE ELSE old

\* variant: the reply does not depend on the comparison
AuthReplyFixed(match) == "auth_success"

AuthReply(match) ==
    IF match THEN "auth_success" ELSE "auth_failed"

HandleAuth(c, secret) ==
    /\ CanReceive(c)
    /\ handled' = Append(handled, NewRec(c, TRUE, "auth", secret, "-"))
    /\ authenticated' =
         [authenticated EXCEPT ![c] = AuthFlagAfter(@, SecretMatches(secret))]
    /\ sent' = Send(sent, c,
         <<Plain(AuthReply(SecretMatches(secret)), ThisFrame,
                 IF SecretMatches(secret) THEN "-" ELSE "Invalid secret")>>)
    /\ UNCHANGED <<clientVars, geminiAvailable>>
    /\ UNCHANGED <<readyState, clients, serverUp, histories, activeProcess, exists, repos>>

\* variant: the authentication test is missing
RequiresAuthSkipped(c) == FALSE

RequiresAuth(c) == ~authenticated[c]

NotAuthenticated(c, type) ==
    /\ CanReceive(c)
    /\ type # "auth"
    /\ RequiresAuth(c)
    /\ handled' = Append(handled, NewRec(c, TRUE, type, NoPayload, "-"))
    /\ sent' = Send(sent, c, <<Plain("error", ThisFrame, "Not authenticated")>>)
    /\ UNCHANGED <<clientVars, geminiAvailable>>
    /\ UNCHANGED <<readyState, clients, authenticated, serverUp, histories,
                   activeProcess, exists, repos>>

\* ------------------------------------------------ handler dispatch
\* this.handlers[type]: a property lookup on an object literal, which also
\* finds what the object inherits from Object.prototype
LookupHandler(type) ==
    IF type \in HandlerKinds THEN "own"
    ELSE IF type \in InheritedKinds THEN "inherited"
    ELSE "none"

UnknownType(c, type) ==
    /\ CanReceive(c)
    /\ type # "auth"
    /\ ~RequiresAuth(c)
    /\ LookupHandler(type) = "none"
    /\ handled' = Append(handled, NewRec(c, TRUE, type, NoPayload, "-"))
    /\ sent' = Send(sent, c, <<Plain("error", ThisFrame, "Unknown message type")>>)
    /\ UNCHANGED <<clientVars, geminiAvailable>>
    /\ UNCHANGED <<readyState, clients, authenticated, serverUp, histories,
                   activeProcess, exists, repos>>

\* variant: progress goes through broadcast, to every authenticated client
ProgressBroadcast(c) == {d \in clients : authenticated[d]}

\* the progress callback handed to the handler sends to the caller's socket
ProgressTargets(c) == {c}

ProgressMsgs(f, base, evs) ==
    [i \in 1..Len(evs) |->
        Msg("progress", f, base + i, evs[i][1], evs[i][2], evs[i][3], "-")]

Ev(stage) == <<stage, "-", "-">>

\* variant: a fault of the handler is swallowed
TerminalReplySwallows(f, type, outcome, result) ==
    IF outcome = "returned" THEN <<Plain(type \o "_result", f, result)>> ELSE <<>>

\* `${type}_result` with the return value, or error with originalType
TerminalReply(f, type, outcome, result) ==
    IF outcome = "returned"
    THEN <<Plain(type \o "_result", f, result)>>
    ELSE <<Msg("error", f, 0, "-", "-", "Handler error", type)>>

\* In the sequence h of records, the handler of frame f emits evs and then
\* awaits at pc.
Await(h, f, evs, pc) ==
    /\ handled' = [h EXCEPT ![f] =
          [h[f] EXCEPT !.handler = TRUE, !.pc = pc, !.emitted = @ + Len(evs)]]
    /\ sent' = SendEach(sent, ProgressTargets(h[f].conn),
                        ProgressMsgs(f, h[f].emitted, evs))

\* In the sequence h of records, the handler of frame f emits evs and then
\* returns or throws, and handleMessage sends the terminal reply.
Settle(h, f, evs, outcome, result) ==
    /\ handled' = [h EXCEPT ![f] =
          [h[f] EXCEPT !.handler = TRUE, !.pc = "done", !.outcome = outcome,
                       !.result = result, !.emitted = @ + Len(evs)]]
    /\ sent' = Send(SendEach(sent, ProgressTargets(h[f].conn),
                             ProgressMsgs(f, h[f].emitted, evs)),
                    h[f].conn, TerminalReply(f, h[f].type, outcome, result))
    /\ serverUp' = IF outcome = "threw" THEN AfterFault(serverUp) ELSE serverUp

Dispatchable(c, type) ==
    /\ CanReceive(c)
    /\ type # "auth"
    /\ ~RequiresAuth(c)

Arrived(c, type, payload, prompt) ==
    Append(handled, NewRec(c, TRUE, type, payload, prompt))

\* Object.prototype.toString returns a string; hasOwnProperty, called
\* without a receiver, throws a TypeError
DispatchInherited(c, type) ==
    /\ Dispatchable(c, type)
    /\ LookupHandler(type) = "inherited"
    /\ IF type = "toString"
       THEN Settle(Arrived(c, type, NoPayload, "-"), ThisFrame, <<>>,
                   "returned", "[object Undefined]")
       ELSE Settle(Arrived(c, type, NoPayload, "-"), ThisFrame, <<>>, "threw", "-")
    /\ UNCHANGED <<clientVars, geminiAvailable>>
    /\ UNCHANGED <<readyState, clients, authenticated, histories, activeProcess, exists, repos>>

\* every handler destructures its payload: an absent payload throws
DispatchNoPayload(c, type) ==
    /\ Dispatchable(c, type)
    /\ LookupHandler(type) = "own"
    /\ Settle(Arrived(c, type, NoPayload, "-"), ThisFrame, <<>>, "threw", "-")
    /\ UNCHANGED <<clientVars, geminiAvailable>>
    /\ UNCHANGED <<readyState, clients, authenticated, histories, activeProcess, exists, repos>>

\* ------------------------------------------------------------ GitManager
\* a target that was never cloned, and the working copy git clone makes
NoRepo == [local |-> <<>>, remote |-> Origin, index |-> NoFiles, work |-> NoFiles]

Tip(branch) == IF branch = <<>> THEN NoFiles ELSE branch[Len(branch)].tree

Clone(g) ==
    [local |-> g.remote, remote |-> g.remote,
     index |-> Tip(g.remote), work |-> Tip(g.remote)]

\* status.files: the paths changed in the directory or in the index
StatusFiles(g) ==
    {p \in Paths : g.work[p] # g.index[p] \/ g.index[p] # Tip(g.local)[p]}

\* git pull: nothing to do when the branch holds all of the origin's,
\* a fast-forward when the origin is ahead and overwrites no local change,
\* a fault otherwise
CanPull(g) ==
    \/ IsPrefix(g.remote, g.local)
    \/ /\ IsPrefix(g.local, g.remote)
       /\ \A p \in StatusFiles(g) : Tip(g.local)[p] = Tip(g.remote)[p]

Pull(g) ==
    IF IsPrefix(g.remote, g.local) THEN g
    ELSE [g EXCEPT !.local = g.remote,
                   !.index = [p \in Paths |-> IF p \in StatusFiles(g)
                                              THEN g.index[p] ELSE Tip(g.remote)[p]],
                   !.work = [p \in Paths |-> IF p \in StatusFiles(g)
                                             THEN g.work[p] ELSE Tip(g.remote)[p]]]

\* git.add('-A'): the index takes the directory as it is
AddAll(g) == [g EXCEPT !.index = g.work]

\* variant: commitAndPush commits whatever git status lists
NothingChangedNever(g) == FALSE

\* status.files.length === 0
NothingChanged(g) == StatusFiles(g) = {}

\* git.commit(message): the index becomes a commit of the call of frame f;
\* with nothing staged git creates none
Staged(g) == g.index # Tip(g.local)

CommitStaged(g, f) ==
    IF Staged(g) THEN [g EXCEPT !.local = Append(@, Commit(f, g.index))] ELSE g

\* git.push: the origin's branch becomes the local one; without --force
\* the origin takes only a branch that extends its own
Push(g) == [g EXCEPT !.remote = g.local]

\* git.reset(['--hard', h]): the branch ends at h, the index and every
\* tracked file are as in h; a file git does not track stays
Known(g, h) == \E i \in 1..Len(g.local) : g.local[i] = h

ResetHard(g, h) ==
    LET i == CHOOSE i \in 1..Len(g.local) : g.local[i] = h
    IN  [g EXCEPT !.local = SubSeq(@, 1, i),
                  !.index = h.tree,
                  !.work = [p \in Paths |-> IF g.index[p] = 0 /\ h.tree[p] = 0
                                            THEN g.work[p] ELSE h.tree[p]]]

\* git.log: the branch, latest commit first
Log(g) == [i \in 1..Len(g.local) |-> g.local[Len(g.local) + 1 - i]]

\* variant: cloneOrPull pulls without testing the path
FirstCommandPulls(type, t) ==
    CASE type = "clone_repo" -> "pull"
      [] type = "get_commits" -> "log"
      [] type = "get_diff" -> "diff"
      [] type = "commit_changes" -> "add"
      [] type = "rollback" -> "reset"

\* the first git command a call awaits
FirstCommand(type, t) ==
    CASE type = "clone_repo" -> IF exists[t] THEN "pull" ELSE "clone"
      [] type = "get_commits" -> "log"
      [] type = "get_diff" -> "diff"
      [] type = "commit_changes" -> "add"
      [] type = "rollback" -> "reset"

\* clone_repo: progress, then gitManager.cloneOrPull, which tests the path
\* before it awaits git
DispatchCloneRepo(c, t) ==
    /\ Dispatchable(c, "clone_repo")
    /\ LET h == Arrived(c, "clone_repo", t, "-")
       IN  Await([h EXCEPT ![ThisFrame].op = FirstCommand("clone_repo", t)],
                 ThisFrame, <<Ev("cloning")>>, "git")
    /\ UNCHANGED <<clientVars, geminiAvailable>>
    /\ UNCHANGED <<readyState, clients, authenticated, serverUp, histories,
                   activeProcess, exists, repos>>

\* get_commits: getCommitHistory returns [] for a path that does not exist
DispatchGetCommits(c, t) ==
    /\ Dispatchable(c, "get_commits")
    /\ IF exists[t]
       THEN /\ Await([Arrived(c, "get_commits", t, "-") EXCEPT
                        ![ThisFrame].op = FirstCommand("get_commits", t)],
                     ThisFrame, <<>>, "git")
            /\ UNCHANGED serverUp
       ELSE Settle(Arrived(c, "get_commits", t, "-"), ThisFrame, <<>>, "returned", "[]")
    /\ UNCHANGED <<clientVars, geminiAvailable>>
    /\ UNCHANGED <<readyState, clients, authenticated, histories, activeProcess,
                   exists, repos>>

\* get_diff, commit_changes, rollback: simpleGit(repoPath) throws for a path
\* that does not exist, otherwise the handler awaits git; hash is the
\* commitHash of the payload
DispatchGit(c, type, t, hash, evs) ==
    /\ Dispatchable(c, type)
    /\ IF exists[t]
       THEN /\ Await([Arrived(c, type, t, "-") EXCEPT
                        ![ThisFrame].op = FirstCommand(type, t),
                        ![ThisFrame].hash = hash],
                     ThisFrame, evs, "git")
            /\ UNCHANGED serverUp
       ELSE Settle([Arrived(c, type, t, "-") EXCEPT ![ThisFrame].hash = hash],
                   ThisFrame, evs, "threw", "-")
    /\ UNCHANGED <<clientVars, geminiAvailable>>
    /\ UNCHANGED <<readyState, clients, authenticated, histories, activeProcess,
                   exists, repos>>

DispatchGetDiff(c, t) == DispatchGit(c, "get_diff", t, NoCommit, <<>>)

DispatchCommitChanges(c, t) ==
    DispatchGit(c, "commit_changes", t, NoCommit, <<Ev("committing")>>)

DispatchRollback(c, t, hash) ==
    DispatchGit(c, "rollback", t, hash, <<Ev("rolling_back")>>)

\* what the call returns once the last git command it awaits is done
GitResults(r) ==
    CASE r.op = "clone" -> {"cloned"}
      [] r.op = "pull" -> {"pulled"}
      [] r.op = "log" -> {"commits"}
      [] r.op = "diff" -> {"diff"}
      [] r.op = "status" -> {"committed:false"}
      [] r.op = "push" -> {"committed:true"}
      [] r.op = "forcepush" -> {"success:true"}
      [] OTHER -> {}

AfterGit(r) ==
    CASE r.type = "clone_repo" ->
            <<Ev("cloned"), Ev("starting_gemini"),
              <<"gemini_output", "info", "Context session initialized.">>,
              Ev("ready")>>
      [] r.type \in {"commit_changes", "rollback"} -> <<Ev("done")>>
      [] OTHER -> <<>>

\* variant: a session starts with an empty history
StartSessionResets(h, t) == [h EXCEPT ![t] = <<>>]

\* GeminiRunner.startSession: a target without a history gets the empty one
\* (histories holds <<>> for a target that has no entry), any other keeps its
StartSession(h, t) == IF h[t] = <<>> THEN [h EXCEPT ![t] = <<>>] ELSE h

\* commitAndPush and rollbackToCommit between two awaits: the git command
\* of frame f is done and the next one starts. add -A (after the two
\* addConfig) is followed by status, status by commit unless it lists
\* nothing, commit by push; reset --hard by the forced push.
GitStep(f) ==
    /\ serverUp
    /\ f \in 1..Len(handled)
    /\ handled[f].pc = "git"
    /\ LET r == handled[f]
           t == handled[f].payload
           g == repos[handled[f].payload]
       IN  \/ /\ r.op = "add"
              /\ repos' = [repos EXCEPT ![t] = AddAll(g)]
              /\ handled' = [handled EXCEPT ![f].op = "status"]
           \/ /\ r.op = "status"
              /\ ~NothingChanged(g)
              /\ handled' = [handled EXCEPT ![f].op = "commit",
                                            ![f].files = StatusFiles(g)]
              /\ UNCHANGED repos
           \/ /\ r.op = "commit"
              /\ repos' = [repos EXCEPT ![t] = CommitStaged(g, f)]
              /\ handled' = [handled EXCEPT
                    ![f].op = "push",
                    ![f].made = IF Staged(g) THEN <<Commit(f, g.index)>> ELSE <<>>]
           \/ /\ r.op = "reset"
              /\ Known(g, r.hash)
              /\ repos' = [repos EXCEPT ![t] = ResetHard(g, r.hash)]
              /\ handled' = [handled EXCEPT ![f].op = "forcepush"]
    /\ UNCHANGED <<clientVars, geminiAvailable>>
    /\ UNCHANGED <<readyState, clients, authenticated, sent, serverUp,
                   histories, activeProcess, exists>>

\* the last git command of the call can be done without a fault
Finishes(r, g) ==
    CASE r.op = "clone" -> ~exists[r.payload]
      [] r.op = "pull" -> CanPull(g)
      [] r.op = "status" -> NothingChanged(g)
      [] r.op = "push" -> IsPrefix(g.remote, g.local)
      [] OTHER -> TRUE

\* the repository after the last git command of the call
Finished(r, g) ==
    CASE r.op = "clone" -> Clone(g)
      [] r.op = "pull" -> Pull(g)
      [] r.op \in {"push", "forcepush"} -> Push(g)
      [] OTHER -> g

\* the handler's continuation after git: clone_repo goes on to startSession
GitResolves(f, res) ==
    /\ serverUp
    /\ f \in 1..Len(handled)
    /\ handled[f].pc = "git"
    /\ res \in GitResults(handled[f])
    /\ Finishes(handled[f], repos[handled[f].payload])
    /\ LET r == handled[f]
           g == repos[handled[f].payload]
       IN  /\ repos' = [repos EXCEPT ![r.payload] = Finished(r, g)]
           /\ Settle([handled EXCEPT
                        ![f].log = IF r.op = "log" THEN Log(g) ELSE @,
                        ![f].pushed = IF r.op \in {"push", "forcepush"}
                                      THEN g.local ELSE @],
                     f, AfterGit(r), "returned", res)
    /\ exists' = IF handled[f].type = "clone_repo" /\ handled[f].op = "clone"
                 THEN [exists EXCEPT ![handled[f].payload] = TRUE]
                 ELSE exists
    /\ histories' = IF handled[f].type = "clone_repo"
                    THEN StartSession(histories, handled[f].payload)
                    ELSE histories
    /\ UNCHANGED <<clientVars, geminiAvailable>>
    /\ UNCHANGED <<readyState, clients, authenticated, activeProcess>>

\* any git command of the call faults: the network, the credential, a
\* hash git does not know, a push the origin refuses
GitRejects(f) ==
    /\ serverUp
    /\ f \in 1..Len(handled)
    /\ handled[f].pc = "git"
    /\ Settle(handled, f, <<>>, "threw", "-")
    /\ UNCHANGED <<clientVars, geminiAvailable>>
    /\ UNCHANGED <<readyState, clients, authenticated, histories, activeProcess, exists, repos>>

\* ------------------------------------------------------- GeminiRunner
Turn(role, text) == [role |-> role, text |-> text]

IsBlank(ch) == ch = " "

RECURSIVE TrimLeft(_)
TrimLeft(out) ==
    IF out # <<>> /\ IsBlank(Head(out)) THEN TrimLeft(Tail(out)) ELSE out

RECURSIVE TrimRight(_)
TrimRight(out) ==
    IF out # <<>> /\ IsBlank(out[Len(out)])
    THEN TrimRight(SubSeq(out, 1, Len(out) - 1))
    ELSE out

\* String.prototype.trim on the chunks of fullOutput
Trim(out) == TrimRight(TrimLeft(out))

\* the label of a turn in the prompt
Label(role) == IF role = "user" THEN "User" ELSE "Assistant"

\* variant: the prompt is built after the user turn is pushed
FullPromptAfterPush(history, p) ==
    <<<<"PREVIOUS MESSAGES:", <<>>>>>> \o
    [i \in 1..(Len(history) + 1) |->
        IF i <= Len(history) THEN <<Label(history[i].role), history[i].text>>
        ELSE <<"User", <<p>>>>] \o
    <<<<"CURRENT REQUEST:", <<>>>>, <<"", <<p>>>>>>

\* fullPrompt, line by line (a label and a text): the prompt alone, or the
\* turns of the history under a heading, a second heading and the prompt
FullPrompt(history, p) ==
    IF Len(history) > 0
    THEN <<<<"PREVIOUS MESSAGES:", <<>>>>>> \o
         [i \in 1..Len(history) |-> <<Label(history[i].role), history[i].text>>] \o
         <<<<"CURRENT REQUEST:", <<>>>>, <<"", <<p>>>>>>
    ELSE <<<<"", <<p>>>>>>

\* the record of a call of execute(t, p): the prompt is built from the
\* history as it is before the user turn is pushed
Executing(c, t, p) ==
    [Arrived(c, "execute_command", t, p) EXCEPT
        ![ThisFrame].fullPrompt = FullPrompt(histories[t], p),
        ![ThisFrame].turn = Len(histories[t]) + 1]

\* fs.writeFileSync(tempFilePath, fullPrompt) and fs.unlinkSync(tempFilePath):
\* the prompt file of frame f in the working directory of t
WriteFile(rp, t, f) == [rp EXCEPT ![t].work[f] = 1]

Unlink(rp, t, f) == [rp EXCEPT ![t].work[f] = 0]

\* execute_command: progress, then geminiRunner.sendPrompt -> execute, which
\* pushes the user turn, writes the prompt file into the working directory
\* and spawns the process; a write that fails rejects before any spawn
DispatchExecute(c, t, p) ==
    /\ Dispatchable(c, "execute_command")
    /\ histories' = [histories EXCEPT ![t] = Append(@, Turn("user", <<p>>))]
    /\ IF exists[t]
       THEN /\ Await([Executing(c, t, p) EXCEPT ![ThisFrame].proc = "running",
                                                ![ThisFrame].promise = "pending"],
                     ThisFrame, <<Ev("starting")>>, "proc")
            /\ activeProcess' = ThisFrame
            /\ repos' = WriteFile(repos, t, ThisFrame)
            /\ UNCHANGED serverUp
       ELSE /\ Settle([Executing(c, t, p) EXCEPT ![ThisFrame].promise = "rejected"],
                      ThisFrame, <<Ev("starting"), Ev("error")>>,
                      "returned", "success:false:fault")
            /\ UNCHANGED <<activeProcess, repos>>
    /\ UNCHANGED <<clientVars, geminiAvailable>>
    /\ UNCHANGED <<readyState, clients, authenticated, exists>>

\* cancel: geminiRunner.cancel kills and forgets the tracked process
\* variant: cancel reports a termination whatever it found
CancelReturnsTrue(tracked) == "cancelled:true"

\* what GeminiRunner.cancel returns, given this.activeProcess
CancelReturns(tracked) ==
    IF tracked # 0 THEN "cancelled:true" ELSE "cancelled:false"

DispatchCancel(c, t) ==
    /\ Dispatchable(c, "cancel")
    /\ IF activeProcess # 0
       THEN /\ Settle([Arrived(c, "cancel", t, "-")
                         EXCEPT ![activeProcess].killed = TRUE],
                      ThisFrame, <<>>, "returned", CancelReturns(activeProcess))
            /\ activeProcess' = 0
       ELSE /\ Settle(Arrived(c, "cancel", t, "-"), ThisFrame, <<>>,
                      "returned", CancelReturns(activeProcess))
            /\ UNCHANGED activeProcess
    /\ UNCHANGED <<clientVars, geminiAvailable>>
    /\ UNCHANGED <<readyState, clients, authenticated, histories, exists, repos>>

Running(f) ==
    /\ serverUp
    /\ f \in 1..Len(handled)
    /\ handled[f].proc = "running"

IsNoise(text) == text \in NoiseChunks

\* variant: a chunk of noise is not forwarded either
OnOutputFiltered(stream, text) ==
    IF IsNoise(text) THEN <<>> ELSE <<<<"running", stream, text>>>>

\* onOutput({type, text}): the handler's callback reports every chunk as
\* progress of stage running
OnOutput(stream, text) == <<<<"running", stream, text>>>>

\* process.stdout.write / process.stderr.write: stderr is echoed unless the
\* chunk holds the noise substring
Echo(stream, text) ==
    IF stream = "stderr" /\ IsNoise(text) THEN <<>> ELSE <<<<stream, text>>>>

\* the chunk is written, echoed and forwarded
Chunk(h, f, stream, ch) ==
    [h EXCEPT ![f].written = Append(@, <<stream, ch>>),
              ![f].echo = @ \o Echo(stream, ch),
              ![f].onOutput = @ \o OnOutput(stream, ch),
              ![f].nchunks = @ + 1]

\* proc.stdout.on('data')
ProcStdout(f, ch) ==
    /\ Running(f)
    /\ handled[f].nchunks < MaxChunks
    /\ Await(Chunk([handled EXCEPT ![f].output = Append(@, ch)], f, "stdout", ch),
             f, OnOutput("stdout", ch), "proc")
    /\ UNCHANGED <<clientVars, geminiAvailable>>
    /\ UNCHANGED <<readyState, clients, authenticated, serverUp, histories,
                   activeProcess, exists, repos>>

\* proc.stderr.on('data')
ProcStderr(f, ch) ==
    /\ Running(f)
    /\ handled[f].nchunks < MaxChunks
    /\ Await(Chunk(handled, f, "stderr", ch), f, OnOutput("stderr", ch), "proc")
    /\ UNCHANGED <<clientVars, geminiAvailable>>
    /\ UNCHANGED <<readyState, clients, authenticated, serverUp, histories,
                   activeProcess, exists, repos>>

\* variant: the turn is pushed for any output of a run that exited with 0
ModelTurnUntrimmed(code, out) ==
    IF code = "0" /\ out # <<>> THEN <<Turn("model", out)>> ELSE <<>>

\* what the close listener pushes to the history: fullOutput, the chunks of
\* stdout, trimmed, if the exit code is 0 and the trimmed text is not empty
ModelTurn(code, out) ==
    IF code = "0" /\ Trim(out) # <<>> THEN <<Turn("model", Trim(out))>> ELSE <<>>

\* variant: a run that exits with another code than 0 rejects
ResolveRejects(code) == IF code = "0" THEN "resolved:true" ELSE "rejected"

\* resolve({success: code === 0, ...}) in the close listener
Resolve(code) == IF code = "0" THEN "resolved:true" ELSE "resolved:false"

ExitCodes(r) == IF r.killed THEN {"0", "1", "null"} ELSE {"0", "1"}

\* proc.on('close'): the assistant turn, then resolve; the handler reports
ProcClose(f, code) ==
    /\ Running(f)
    /\ code \in ExitCodes(handled[f])
    /\ histories' = [histories EXCEPT ![handled[f].payload] =
                        @ \o ModelTurn(code, handled[f].output)]
    /\ activeProcess' = 0
    /\ LET h == [handled EXCEPT ![f].proc = "closed", ![f].code = code,
                                ![f].promise = Resolve(code)]
       IN  CASE Resolve(code) = "resolved:true" ->
                   Settle(h, f, <<Ev("done")>>, "returned", "success:true")
             [] Resolve(code) = "resolved:false" ->
                   Settle(h, f, <<Ev("error")>>, "returned", "success:false")
             [] OTHER ->
                   Settle(h, f, <<Ev("error")>>, "returned", "success:false:fault")
    /\ repos' = Unlink(repos, handled[f].payload, f)
    /\ UNCHANGED <<clientVars, geminiAvailable>>
    /\ UNCHANGED <<readyState, clients, authenticated, exists>>

\* proc.on('error'): the process could not be started; execute rejects and
\* the handler's catch reports
ProcError(f) ==
    /\ Running(f)
    /\ handled[f].nchunks = 0
    /\ ~handled[f].killed
    /\ activeProcess' = 0
    /\ Settle([handled EXCEPT ![f].proc = "errored", ![f].promise = "rejected"],
              f, <<Ev("error")>>, "returned", "success:false:fault")
    /\ repos' = Unlink(repos, handled[f].payload, f)
    /\ UNCHANGED <<clientVars, geminiAvailable>>
    /\ UNCHANGED <<readyState, clients, authenticated, histories, exists>>

\* the 'close' event that follows a failed spawn runs the close listener on
\* a promise already rejected
ProcCloseAfterError(f) ==
    /\ serverUp
    /\ f \in 1..Len(handled)
    /\ handled[f].proc = "errored"
    /\ handled' = [handled EXCEPT ![f].proc = "closed", ![f].code = "null"]
    /\ activeProcess' = 0
    /\ repos' = Unlink(repos, handled[f].payload, f)
    /\ UNCHANGED <<clientVars, geminiAvailable>>
    /\ UNCHANGED <<readyState, clients, authenticated, sent, serverUp,
                   histories, exists>>

\* the running process changes the source file: the CLI is started in the
\* working directory with --yolo and edits files as the prompt asks
ProcEdits(f) ==
    /\ Running(f)
    /\ repos[handled[f].payload].work[0] # Edited(f)
    /\ repos' = [repos EXCEPT ![handled[f].payload].work[0] = Edited(f)]
    /\ UNCHANGED <<clientVars, geminiAvailable>>
    /\ UNCHANGED <<readyState, clients, authenticated, sent, handled, serverUp,
                   histories, activeProcess, exists>>

\* =================================================== web app: useWebSocket
\* The hook runs on the browser's event loop: one action below is one call
\* by the page (connect, disconnect, onMessage, an unsubscribe function,
\* request) or one event (open, message, close, a timer), run to completion.
Sockets == {1, 2, 3}
Reqs == {1, 2}
\* the calls of request under RequestSpec
Calls == {1, 2, 3}
Subs == {1, 2}
ReqKinds == {"get_commits", "rollback"}
ProgressKinds == {"rollback"}
ResultKind(k) == k \o "_result"
Kinds ==
    {ResultKind(k) : k \in ReqKinds} \cup
    {"error", "progress", "welcome", "auth_success", "auth_failed", "*"}
SubscribedKinds == {"progress", "*"}
ConfiguredSecret == "configured"
NormalClosure == 1000
AbnormalClosure == 1006

\* a handler function: the closures that request creates, or a function of
\* the page
Fn(role, id) == [role |-> role, id |-> id]
UserFns == {Fn("page", 1)}

\* a message of the server as the hook parses it
CMsg(type, text, orig) == [type |-> type, text |-> text, originalType |-> orig]
NoMessage == CMsg("-", "-", "-")

\* a frame the hook sends; req is the request call that sent it (0: none)
Frame(type, payload, req) == [type |-> type, payload |-> payload, req |-> req]

NoSocket == [readyState |-> "NONE", established |-> FALSE, srv |-> "new"]
NoRequest ==
    [type |-> "-", state |-> "idle", value |-> "-", timer |-> "none", sock |-> 0]

\* ---------------------------------------------------------- onMessage
\* handlers.indexOf(handler): the first position holding that function
IndexOf(handlers, fn) ==
    IF \E i \in 1..Len(handlers) : handlers[i].fn = fn
    THEN CHOOSE i \in 1..Len(handlers) :
            /\ handlers[i].fn = fn
            /\ \A j \in 1..(i - 1) : handlers[j].fn # fn
    ELSE 0

\* handlers.splice(index, 1)
Splice(handlers, i) ==
    SubSeq(handlers, 1, i - 1) \o SubSeq(handlers, i + 1, Len(handlers))

\* messageHandlersRef.current.get(type).push(handler); reg numbers the call
Register(mh, type, fn, reg) ==
    [mh EXCEPT ![type] = Append(@, [fn |-> fn, reg |-> reg])]

\* the unsubscribe function that onMessage(type, fn) returned
Unsub(mh, type, fn) ==
    IF IndexOf(mh[type], fn) > 0
    THEN [mh EXCEPT ![type] = Splice(@, IndexOf(mh[type], fn))]
    ELSE mh

\* ------------------------------------------------------------ request
\* variant: a promise that lets a later resolve or reject replace its outcome
PromiseSettleAgain(q, state, value) ==
    [q EXCEPT !.state = state, !.value = value]

\* resolve / reject of the promise of request q: the first call settles it
PromiseSettle(q, state, value) ==
    IF q.state = "pending" THEN [q EXCEPT !.state = state, !.value = value] ELSE q

\* clearTimeout(timeoutId)
ClearTimeout(q) == IF q.timer = "armed" THEN [q EXCEPT !.timer = "cleared"] ELSE q

\* One handler called with a message. st holds the handler table mh, the
\* requests rq and the registrations inv invoked so far.
Invoke(st, e, msg) ==
    LET r == e.fn.id
        called == [st EXCEPT !.inv = Append(@, e.reg)]
    IN  CASE e.fn.role = "result" ->
                [called EXCEPT
                    !.mh = Unsub(st.mh, ResultKind(st.rq[r].type), e.fn),
                    !.rq = [st.rq EXCEPT ![r] =
                              PromiseSettle(ClearTimeout(@), "resolved", msg.text)]]
          [] e.fn.role = "error" ->
                IF msg.originalType = st.rq[r].type
                THEN [called EXCEPT
                        !.mh = Unsub(Unsub(st.mh, ResultKind(st.rq[r].type),
                                           Fn("result", r)),
                                     "error", e.fn),
                        !.rq = [st.rq EXCEPT ![r] =
                                  PromiseSettle(ClearTimeout(@), "rejected", msg.text)]]
                ELSE called
          [] OTHER -> called

\* handlers.forEach(handler => handler(...)) over the array of kind, which
\* the handlers called may shorten: forEach reads the length once and then
\* visits each index that is still present
RECURSIVE ForEach(_, _, _, _, _)
ForEach(st, kind, k, len, msg) ==
    IF k > len \/ k > Len(st.mh[kind])
    THEN st
    ELSE ForEach(Invoke(st, st.mh[kind][k], msg), kind, k + 1, len, msg)

\* the registrations of a kind, in the order of the array
RegsOf(mh, kind) == [i \in 1..Len(mh[kind]) |-> mh[kind][i].reg]

\* the handlers of the message's type, then the wildcard handlers
Deliver(mh, rq, msg) ==
    LET exact == ForEach([mh |-> mh, rq |-> rq, inv |-> <<>>],
                         msg.type, 1, Len(mh[msg.type]), msg)
    IN  ForEach(exact, "*", 1, Len(exact.mh["*"]), msg)

\* ------------------------------------------------- connect / disconnect
Live(s) == ws[s].readyState \in {"CONNECTING", "OPEN"}

\* wsRef.current is OPEN or CONNECTING
AlreadyConnected ==
    wsRef # 0 /\ ws[wsRef].readyState \in {"OPEN", "CONNECTING"}

HasFresh == \E s \in Sockets : ws[s].readyState = "NONE"

Fresh ==
    CHOOSE s \in Sockets :
        /\ ws[s].readyState = "NONE"
        /\ \A d \in Sockets : d < s => ws[d].readyState # "NONE"

\* the body of connect: new WebSocket(wsUrl) unless one is there already
ConnectBody ==
    IF AlreadyConnected
    THEN UNCHANGED <<wsRef, ws>>
    ELSE /\ ws' = [ws EXCEPT ![Fresh] = [NoSocket EXCEPT !.readyState = "CONNECTING"]]
         /\ wsRef' = Fresh

\* connect(), called by the page
Connect ==
    /\ AlreadyConnected \/ HasFresh
    /\ ConnectBody
    /\ userClosed' = FALSE
    /\ UNCHANGED <<reconnectTimeoutRef, timers, messageHandlers, regs, requests,
                   wire, serverOps, isConnected, isAuthenticated, lastMessage,
                   error, delivery, unsubscribed>>
    /\ UNCHANGED serverVars

\* the callback of the timer that onclose set
ReconnectTimer(t) ==
    /\ t \in timers
    /\ AlreadyConnected \/ HasFresh
    /\ timers' = timers \ {t}
    /\ ConnectBody
    /\ UNCHANGED <<reconnectTimeoutRef, messageHandlers, regs, requests, wire,
                   serverOps, isConnected, isAuthenticated, lastMessage, error,
                   userClosed, unsubscribed, delivery>>
    /\ UNCHANGED serverVars

\* ws.close(1000, ...) on a transport that is connecting or open
CloseCalled(w) ==
    IF w.readyState \in {"CONNECTING", "OPEN"}
    THEN [w EXCEPT !.readyState = "CLOSING"]
    ELSE w

\* disconnect(), called by the page
Disconnect ==
    /\ timers' = timers \ {reconnectTimeoutRef}
    /\ reconnectTimeoutRef' = 0
    /\ ws' = IF wsRef # 0 THEN [ws EXCEPT ![wsRef] = CloseCalled(@)] ELSE ws
    /\ wsRef' = 0
    /\ userClosed' = TRUE
    /\ UNCHANGED <<messageHandlers, regs, requests, wire, serverOps, isConnected,
                   isAuthenticated, lastMessage, error, delivery, unsubscribed>>
    /\ UNCHANGED serverVars

\* variant: onopen sends nothing
AuthOnOpenMissing == <<>>

\* what onopen sends
AuthOnOpen == <<Frame("auth", ConfiguredSecret, 0)>>

\* ws.onopen
WsOnOpen(s) ==
    /\ ws[s].readyState = "CONNECTING"
    /\ ws' = [ws EXCEPT ![s].readyState = "OPEN", ![s].established = TRUE]
    /\ isConnected' = TRUE
    /\ error' = "null"
    /\ wire' = [wire EXCEPT ![s] = @ \o AuthOnOpen]
    /\ UNCHANGED <<wsRef, reconnectTimeoutRef, timers, messageHandlers, regs,
                   requests, serverOps, isAuthenticated, lastMessage, userClosed, unsubscribed,
                   delivery>>
    /\ UNCHANGED serverVars

\* The code of the close event. A transport closed by the peer or the network
\* reports an abnormal closure; after close(1000) the handshake completes with
\* 1000 if the transport was established and is still up, and the transport
\* fails otherwise.
CloseCodes(w) ==
    IF w.readyState = "CLOSING" /\ w.established
    THEN {NormalClosure, AbnormalClosure}
    ELSE {AbnormalClosure}

\* ws.onerror, for a transport that failed, and ws.onclose
WsOnClose(s, code) ==
    /\ ws[s].readyState \in {"CONNECTING", "OPEN", "CLOSING"}
    /\ code \in CloseCodes(ws[s])
    /\ ws' = [ws EXCEPT ![s].readyState = "CLOSED"]
    /\ error' = IF code = AbnormalClosure THEN "Connection failed" ELSE error
    /\ isConnected' = FALSE
    /\ isAuthenticated' = FALSE
    /\ wsRef' = 0
    /\ IF code # NormalClosure
       THEN /\ reconnectTimeoutRef' = s
            /\ timers' = timers \cup {s}
       ELSE UNCHANGED <<reconnectTimeoutRef, timers>>
    /\ serverOps' = {o \in serverOps : o.sock # s}
    /\ UNCHANGED <<messageHandlers, regs, requests, wire, lastMessage,
                   userClosed, unsubscribed, delivery>>
    /\ UNCHANGED serverVars

\* ------------------------------------------------------ send / request
\* send: wsRef.current?.readyState === WebSocket.OPEN
SendOk == wsRef # 0 /\ ws[wsRef].readyState = "OPEN"

\* variant: the path of a closed transport keeps its two subscriptions
NotConnectedKeeps(mh, k, r) == mh

\* unsubscribe(); errorUnsub() on the path of a closed transport
NotConnectedCleanup(mh, k, r) ==
    Unsub(Unsub(mh, ResultKind(k), Fn("result", r)), "error", Fn("error", r))

\* what request(k, ...) subscribes before it sends
Subscribed(mh, k, r) ==
    Register(Register(mh, ResultKind(k), Fn("result", r), Len(regs) + 1),
             "error", Fn("error", r), Len(regs) + 2)

\* request(k, payload), the r-th call of request
Request(r, k) ==
    /\ requests[r].state = "idle"
    /\ \A q \in Reqs : q < r => requests[q].state # "idle"
    /\ regs' = regs \o <<[type |-> ResultKind(k), fn |-> Fn("result", r)],
                         [type |-> "error", fn |-> Fn("error", r)]>>
    /\ IF SendOk
       THEN /\ messageHandlers' = Subscribed(messageHandlers, k, r)
            /\ wire' = [wire EXCEPT ![wsRef] = Append(@, Frame(k, "payload", r))]
            /\ serverOps' = serverOps \cup {[sock |-> wsRef, req |-> r, type |-> k]}
            /\ requests' = [requests EXCEPT ![r] =
                  [type |-> k, state |-> "pending", value |-> "-",
                   timer |-> "armed", sock |-> wsRef]]
       ELSE /\ messageHandlers' =
                  NotConnectedCleanup(Subscribed(messageHandlers, k, r), k, r)
            /\ requests' = [requests EXCEPT ![r] =
                  [type |-> k, state |-> "rejected", value |-> "Not connected",
                   timer |-> "cleared", sock |-> 0]]
            /\ UNCHANGED <<wire, serverOps>>
    /\ UNCHANGED <<wsRef, ws, reconnectTimeoutRef, timers, isConnected,
                   isAuthenticated, lastMessage, error, userClosed, unsubscribed, delivery>>
    /\ UNCHANGED serverVars

\* the callback of the timer of request r
Timeout(r) ==
    /\ requests[r].timer = "armed"
    /\ requests' = [requests EXCEPT ![r] =
          PromiseSettle([@ EXCEPT !.timer = "fired"], "rejected", "Request timeout")]
    /\ UNCHANGED <<wsRef, ws, reconnectTimeoutRef, timers, messageHandlers, regs,
                   wire, serverOps, isConnected, isAuthenticated, lastMessage,
                   error, userClosed, unsubscribed, delivery>>
    /\ UNCHANGED serverVars

\* ---------------------------------------------------------- ws.onmessage
\* ws.onmessage with a message that parses: the React state, then the
\* handlers
OnMessageBody(s, msg) ==
    /\ lastMessage' = msg
    /\ isAuthenticated' =
         CASE msg.type = "auth_success" -> TRUE
           [] msg.type = "auth_failed" -> FALSE
           [] OTHER -> isAuthenticated
    /\ error' = IF msg.type = "auth_failed" THEN "Authentication failed" ELSE error
    /\ messageHandlers' = Deliver(messageHandlers, requests, msg).mh
    /\ requests' = Deliver(messageHandlers, requests, msg).rq
    /\ delivery' =
         [before |-> RegsOf(messageHandlers, msg.type) \o RegsOf(messageHandlers, "*"),
          invoked |-> Deliver(messageHandlers, requests, msg).inv]
    /\ UNCHANGED <<wsRef, reconnectTimeoutRef, timers, regs, wire, isConnected,
                   userClosed, unsubscribed>>
    /\ UNCHANGED serverVars

\* the welcome the server sends to a new connection
RecvWelcome(s) ==
    /\ ws[s].readyState = "OPEN"
    /\ ws[s].srv = "new"
    /\ ws' = [ws EXCEPT ![s].srv = "welcomed"]
    /\ OnMessageBody(s, CMsg("welcome", "Please authenticate", "-"))
    /\ UNCHANGED serverOps

\* the server's answer to the auth frame
RecvAuthReply(s, ok) ==
    /\ ws[s].readyState = "OPEN"
    /\ ws[s].srv = "welcomed"
    /\ Len(wire[s]) > 0
    /\ wire[s][1].type = "auth"
    /\ ws' = [ws EXCEPT ![s].srv = IF ok THEN "authed" ELSE "refused"]
    /\ OnMessageBody(s, IF ok THEN CMsg("auth_success", "-", "-")
                        ELSE CMsg("auth_failed", "Invalid secret", "-"))
    /\ UNCHANGED serverOps

\* the terminal replies the server can give to the frame of o
Answers(o) ==
    IF ws[o.sock].srv = "authed"
    THEN {CMsg(ResultKind(o.type), "result", "-"),
          CMsg("error", "Handler error", o.type)}
    ELSE {CMsg("error", "Not authenticated", "-")}

\* the server's terminal reply to a request frame
RecvReply(o, msg) ==
    /\ o \in serverOps
    /\ ws[o.sock].readyState = "OPEN"
    /\ ws[o.sock].srv \in {"authed", "refused"}
    /\ msg \in Answers(o)
    /\ serverOps' = serverOps \ {o}
    /\ OnMessageBody(o.sock, msg)
    /\ UNCHANGED ws

\* a progress event of the handler that serves the frame of o
RecvProgress(o) ==
    /\ o \in serverOps
    /\ ws[o.sock].readyState = "OPEN"
    /\ ws[o.sock].srv = "authed"
    /\ o.type \in ProgressKinds
    /\ OnMessageBody(o.sock, CMsg("progress", "rolling_back", "-"))
    /\ UNCHANGED <<ws, serverOps>>

\* ------------------------------------------- onMessage called by the page
UserRegs == {n \in 1..Len(regs) : regs[n].fn \in UserFns}

Subscribe(kind, fn) ==
    /\ Cardinality(UserRegs) < Cardinality(Subs)
    /\ regs' = Append(regs, [type |-> kind, fn |-> fn])
    /\ messageHandlers' = Register(messageHandlers, kind, fn, Len(regs) + 1)
    /\ UNCHANGED <<wsRef, ws, reconnectTimeoutRef, timers, requests, wire,
                   serverOps, isConnected, isAuthenticated, lastMessage, error,
                   userClosed, unsubscribed, delivery>>
    /\ UNCHANGED serverVars

\* the unsubscribe function that registration n returned, called by the page
Unsubscribe(n) ==
    /\ n \in UserRegs
    /\ messageHandlers' = Unsub(messageHandlers, regs[n].type, regs[n].fn)
    /\ unsubscribed' = unsubscribed \cup {n}
    /\ UNCHANGED <<wsRef, ws, reconnectTimeoutRef, timers, regs, requests, wire,
                   serverOps, isConnected, isAuthenticated, lastMessage, error,
                   userClosed, delivery>>
    /\ UNCHANGED serverVars

ServerInit(ex, rp) ==
    /\ readyState = [c \in Conns |-> "NONE"]
    /\ clients = {}
    /\ authenticated = [c \in Conns |-> FALSE]
    /\ sent = [c \in Conns |-> <<>>]
    /\ handled = <<>>
    /\ serverUp = TRUE
    /\ histories = [t \in Targets |-> <<>>]
    /\ activeProcess = 0
    /\ exists = ex
    /\ repos = rp
    /\ geminiAvailable = NotProbed

ClientInit ==
    /\ wsRef = 0
    /\ ws = [s \in Sockets |-> NoSocket]
    /\ reconnectTimeoutRef = 0
    /\ timers = {}
    /\ messageHandlers = [k \in Kinds |-> <<>>]
    /\ regs = <<>>
    /\ requests = [r \in Calls |-> NoRequest]
    /\ wire = [s \in Sockets |-> <<>>]
    /\ serverOps = {}
    /\ isConnected = FALSE
    /\ isAuthenticated = FALSE
    /\ lastMessage = NoMessage
    /\ error = "null"
    /\ userClosed = FALSE
    /\ unsubscribed = {}
    /\ delivery = [before |-> <<>>, invoked |-> <<>>]

\* a server that starts with an empty working area, and a page that has just
\* mounted
Init ==
    /\ ServerInit([t \in Targets |-> FALSE], [t \in Targets |-> NoRepo])
    /\ ClientInit

Next ==
    \/ Start
    \/ \E c \in Conns : OnConnection(c)
    \/ \E c \in Conns : OnClose(c)
    \/ \E c \in Conns : OnMalformed(c)
    \/ \E c \in Conns, s \in Secrets : HandleAuth(c, s)
    \/ \E c \in Conns, k \in ProbeKinds : NotAuthenticated(c, k)
    \/ \E c \in Conns, k \in UnknownKinds : UnknownType(c, k)
    \/ \E c \in Conns, k \in InheritedKinds : DispatchInherited(c, k)
    \/ \E c \in Conns, k \in NoPayloadKinds : DispatchNoPayload(c, k)
    \/ \E c \in Conns, t \in SpecTargets : DispatchCloneRepo(c, t)
    \/ \E c \in Conns, t \in SpecTargets : DispatchGetCommits(c, t)
    \/ \E c \in Conns, t \in SpecTargets : DispatchGetDiff(c, t)
    \/ \E c \in Conns, t \in SpecTargets : DispatchCommitChanges(c, t)
    \/ \E c \in Conns, t \in SpecTargets, h \in SpecHashes : DispatchRollback(c, t, h)
    \/ \E c \in Conns, t \in SpecTargets : DispatchCancel(c, t)
    \/ \E c \in Conns, t \in SpecTargets, p \in Prompts : DispatchExecute(c, t, p)
    \/ \E f \in Frames : GitStep(f)
    \/ \E f \in Frames, res \in GitValues : GitResolves(f, res)
    \/ \E f \in Frames : GitRejects(f)
    \/ \E f \in Frames, ch \in SpecStdout : ProcStdout(f, ch)
    \/ \E f \in Frames, ch \in SpecStderr : ProcStderr(f, ch)
    \/ \E f \in Frames, code \in {"0", "1", "null"} : ProcClose(f, code)
    \/ \E f \in Frames : ProcError(f)
    \/ \E f \in Frames : ProcCloseAfterError(f)

Spec == Init /\ [][Next]_vars

\* a server that starts over working directories that earlier runs cloned:
\* both are there, or the second is missing
GeminiInit ==
    /\ \E ex \in {[t \in Targets |-> TRUE], [t \in Targets |-> t = "o/a"]} :
          ServerInit(ex, [t \in Targets |-> IF ex[t] THEN Clone(NoRepo) ELSE NoRepo])
    /\ ClientInit

\* the frames of the client of GeminiNext: auth and two commands
GeminiFrames == {1, 2, 3}

\* one client that runs and cancels prompts on the two targets
GeminiNext ==
    \/ Start
    \/ OnConnection(1)
    \/ ThisFrame \in GeminiFrames /\ HandleAuth(1, SharedSecret)
    \/ \E t \in Targets, p \in Prompts :
          ThisFrame \in GeminiFrames /\ DispatchExecute(1, t, p)
    \/ \E t \in Targets : ThisFrame \in GeminiFrames /\ DispatchCancel(1, t)
    \/ \E f \in Frames, ch \in StdoutChunks : ProcStdout(f, ch)
    \/ \E f \in Frames, ch \in StderrChunks : ProcStderr(f, ch)
    \/ \E f \in Frames, code \in {"0", "1", "null"} : ProcClose(f, code)
    \/ \E f \in Frames : ProcError(f)
    \/ \E f \in Frames : ProcCloseAfterError(f)

GeminiSpec == GeminiInit /\ [][GeminiNext]_vars

\* one client that works on one target. The server starts without a working
\* copy of it, or over one that an earlier run cloned and left clean, or
\* left with an edit of the source file that was never committed
RepoInit ==
    /\ \E g \in {NoRepo, Clone(NoRepo), [Clone(NoRepo) EXCEPT !.work = Tree(3)]} :
          ServerInit([t \in Targets |-> t \in SpecTargets /\ g # NoRepo],
                     [t \in Targets |-> IF t \in SpecTargets THEN g ELSE NoRepo])
    /\ ClientInit

RepoNext ==
    \/ Start
    \/ OnConnection(1)
    \/ HandleAuth(1, SharedSecret)
    \/ \E t \in SpecTargets : DispatchCloneRepo(1, t)
    \/ \E t \in SpecTargets : DispatchGetCommits(1, t)
    \/ \E t \in SpecTargets : DispatchCommitChanges(1, t)
    \/ \E t \in SpecTargets, h \in Hashes : DispatchRollback(1, t, h)
    \/ \E t \in SpecTargets, p \in Prompts : DispatchExecute(1, t, p)
    \/ \E f \in Frames : GitStep(f)
    \/ \E f \in Frames, res \in GitValues : GitResolves(f, res)
    \/ \E f \in Frames : GitRejects(f)
    \/ \E f \in Frames : ProcEdits(f)
    \/ \E f \in Frames, code \in {"0", "1"} : ProcClose(f, code)
    \/ \E f \in Frames : ProcError(f)
    \/ \E f \in Frames : ProcCloseAfterError(f)

RepoSpec == RepoInit /\ [][RepoNext]_vars

\* the page connects when it mounts
FirstConnect == ws[1].readyState = "NONE" /\ Connect

\* requests and subscriptions of the page over the transport it opened first,
\* against a server that answers each frame once
ClientNext ==
    \/ FirstConnect
    \/ \E s \in Sockets : WsOnOpen(s)
    \/ \E s \in Sockets, code \in {NormalClosure, AbnormalClosure} : WsOnClose(s, code)
    \/ \E r \in Reqs, k \in ReqKinds : Request(r, k)
    \/ \E r \in Reqs : Timeout(r)
    \/ \E s \in Sockets : RecvWelcome(s)
    \/ \E s \in Sockets, ok \in BOOLEAN : RecvAuthReply(s, ok)
    \/ \E o \in serverOps : \E msg \in Answers(o) : RecvReply(o, msg)
    \/ \E o \in serverOps : RecvProgress(o)
    \/ \E kind \in SubscribedKinds, fn \in UserFns : Subscribe(kind, fn)
    \/ \E n \in 1..Len(regs) : Unsubscribe(n)

ClientSpec == Init /\ [][ClientNext]_vars

\* a timer that is set and not cleared fires
ClientLive == ClientSpec /\ \A r \in Reqs : WF_vars(Timeout(r))

\* the transports of the hook under connect, disconnect and reconnection,
\* with one request of the page
TransportNext ==
    \/ Connect
    \/ Disconnect
    \/ \E t \in Sockets : ReconnectTimer(t)
    \/ \E s \in Sockets : WsOnOpen(s)
    \/ \E s \in Sockets, code \in {NormalClosure, AbnormalClosure} : WsOnClose(s, code)
    \/ \E r \in {1}, k \in ProgressKinds : Request(r, k)
    \/ \E r \in {1} : Timeout(r)
    \/ \E s \in Sockets : RecvWelcome(s)
    \/ \E s \in Sockets, ok \in BOOLEAN : RecvAuthReply(s, ok)
    \/ \E o \in serverOps : \E msg \in Answers(o) : RecvReply(o, msg)

TransportSpec == Init /\ [][TransportNext]_vars

\* three requests of one kind over the transport the page opened first
RequestNext ==
    \/ FirstConnect
    \/ \E s \in Sockets : WsOnOpen(s)
    \/ \E s \in Sockets : RecvWelcome(s)
    \/ \E s \in Sockets : RecvAuthReply(s, TRUE)
    \/ \E r \in Calls : Request(r, "get_commits")
    \/ \E r \in Calls : Timeout(r)
    \/ \E o \in serverOps : \E msg \in Answers(o) : RecvReply(o, msg)

RequestSpec == Init /\ [][RequestNext]_vars

\* ------------------------------------------------------------ properties
Received == 1..Len(handled)

\* positions on connection c's wire of the messages caused by frame f
Wire(c, f) == {i \in 1..Len(sent[c]) : sent[c][i].frame = f}

Replies(c, f) == {i \in Wire(c, f) : sent[c][i].type # "progress"}

\* a step that handles a newly arrived frame
Arrival == Len(handled') = Len(handled) + 1

\* C1: a frame whose type is not auth, arriving while the connection is not
\* authenticated, gets exactly one reply on its connection, an error, gets
\* nothing on any other connection, and no handler is invoked for it.
C1_UnauthenticatedRejected ==
    \A f \in Received :
        LET r == handled[f] IN
        (r.parsed /\ r.type # "auth" /\ ~r.authed) =>
            /\ ~r.handler
            /\ Cardinality(Wire(r.conn, f)) = 1
            /\ \A i \in Wire(r.conn, f) :
                  /\ sent[r.conn][i].type = "error"
                  /\ sent[r.conn][i].text = "Not authenticated"
            /\ \A d \in Conns \ {r.conn} : Wire(d, f) = {}

C1_Witness ==
    \E f \in Received :
        /\ handled[f].type = "execute_command"
        /\ ~handled[f].authed
        /\ \E i \in Wire(handled[f].conn, f) : sent[handled[f].conn][i].type = "error"

\* C2: a frame dispatched to a registered handler gets no terminal reply
\* while the handler runs and at most one ever; once the handler has
\* finished on a connection still open it has exactly one: K_result with the
\* return value if the handler returned, error with originalType K if it
\* raised.
C2_OneTerminalReply ==
    \A f \in Received :
        LET r == handled[f] IN
        (r.handler /\ r.type \in HandlerKinds) =>
            /\ Cardinality(Replies(r.conn, f)) <= 1
            /\ r.pc # "done" => Replies(r.conn, f) = {}
            /\ (r.pc = "done" /\ readyState[r.conn] = "OPEN") =>
                  /\ Cardinality(Replies(r.conn, f)) = 1
                  /\ \A i \in Replies(r.conn, f) :
                       LET m == sent[r.conn][i] IN
                       /\ r.outcome = "returned" =>
                            /\ m.type = r.type \o "_result"
                            /\ m.text = r.result
                       /\ r.outcome = "threw" =>
                            /\ m.type = "error"
                            /\ m.originalType = r.type
                       /\ r.outcome \in {"returned", "threw"}

C2_Witness ==
    \E f, g \in Received :
        /\ handled[f].conn = handled[g].conn
        /\ readyState[handled[f].conn] = "OPEN"
        /\ handled[f].type \in GitKinds /\ handled[f].op = "clone"
        /\ handled[f].outcome = "threw"
        /\ handled[g].type = "get_commits" /\ handled[g].outcome = "returned"
        /\ Cardinality(Replies(handled[f].conn, f)) = 1
        /\ Cardinality(Replies(handled[g].conn, g)) = 1

\* C3: a connection is not authenticated when it is accepted, and no step
\* turns an authenticated connection back into an unauthenticated one.
C3_AuthenticatedOneWay ==
    [][\A c \in Conns :
          /\ (readyState[c] = "NONE" /\ readyState'[c] = "OPEN") => ~authenticated'[c]
          /\ authenticated[c] => authenticated'[c]]_vars

C3_Witness ==
    \E f, g \in Received :
        /\ f < g
        /\ handled[f].conn = handled[g].conn
        /\ handled[f].type = "auth" /\ SecretMatches(handled[f].payload)
        /\ handled[g].type = "auth" /\ ~SecretMatches(handled[g].payload)
        /\ authenticated[handled[g].conn]

\* C4: the step that handles an auth frame with a wrong secret sends exactly
\* auth_failed on that connection and changes neither any authenticated flag
\* nor any socket nor the registry.
C4_AuthFailedKeepsState ==
    [][(Arrival /\ handled'[Len(handled')].type = "auth"
               /\ ~SecretMatches(handled'[Len(handled')].payload)) =>
          LET c == handled'[Len(handled')].conn IN
          /\ authenticated' = authenticated
          /\ readyState' = readyState
          /\ clients' = clients
          /\ Len(sent'[c]) = Len(sent[c]) + 1
          /\ sent'[c][Len(sent'[c])].type = "auth_failed"
          /\ \A d \in Conns \ {c} : sent'[d] = sent[d]]_vars

\* two failed attempts, then a successful one on the same connection
C4_Witness ==
    /\ Len(handled) = 3
    /\ \A f \in 1..3 : handled[f].type = "auth" /\ handled[f].conn = 1
    /\ ~SecretMatches(handled[1].payload)
    /\ ~SecretMatches(handled[2].payload)
    /\ ~handled[3].authed
    /\ authenticated[1]
    /\ sent[1][Len(sent[1])].type = "auth_success"

\* C5: the step that handles a frame that does not parse sends exactly one
\* error on that connection, invokes no handler and changes no flag, socket,
\* registry entry, history or process record.
C5_MalformedKeepsState ==
    [][(Arrival /\ ~handled'[Len(handled')].parsed) =>
          LET c == handled'[Len(handled')].conn IN
          /\ ~handled'[Len(handled')].handler
          /\ authenticated' = authenticated
          /\ readyState' = readyState
          /\ clients' = clients
          /\ histories' = histories
          /\ activeProcess' = activeProcess
          /\ Len(sent'[c]) = Len(sent[c]) + 1
          /\ sent'[c][Len(sent'[c])].type = "error"
          /\ \A d \in Conns \ {c} : sent'[d] = sent[d]]_vars

\* a frame that does not parse, and after it a well-formed frame answered
\* with a result on the same connection
C5_Witness ==
    \E f, g \in Received :
        /\ f < g
        /\ ~handled[f].parsed
        /\ handled[g].conn = handled[f].conn
        /\ handled[g].outcome = "returned"
        /\ Replies(handled[g].conn, g) # {}

\* C6: on an authenticated connection a frame whose type names no registered
\* handler gets exactly one reply, the error "Unknown message type", and no
\* function is invoked for it.
C6_UnknownKindRejected ==
    \A f \in Received :
        LET r == handled[f] IN
        (r.parsed /\ r.authed /\ r.type \notin HandlerKinds \cup {"auth"}) =>
            /\ ~r.handler
            /\ Cardinality(Wire(r.conn, f)) = 1
            /\ \A i \in Wire(r.conn, f) :
                  /\ sent[r.conn][i].type = "error"
                  /\ sent[r.conn][i].text = "Unknown message type"

\* a frame that the server answers with a fault
Faulted(r) ==
    \/ ~r.parsed
    \/ r.type = "auth" /\ ~SecretMatches(r.payload)
    \/ r.type # "auth" /\ ~r.authed
    \/ r.type # "auth" /\ r.authed /\ LookupHandler(r.type) = "none"
    \/ r.outcome = "threw"

FaultStep ==
    \E f \in 1..Len(handled') :
        /\ Faulted(handled'[f])
        /\ f \in Received => ~Faulted(handled[f])

\* C7: the server process stays up, and a step that answers a frame with a
\* fault (malformed, not authenticated, unknown type, wrong secret, handler
\* raised) changes no socket, no registry entry and no authenticated flag.
C7_FaultsContained ==
    /\ []serverUp
    /\ [][FaultStep =>
            /\ serverUp'
            /\ readyState' = readyState
            /\ clients' = clients
            /\ authenticated' = authenticated]_vars

\* a handler raised, and a later frame on the same connection got its result
C7_Witness ==
    \E f, g \in Received :
        /\ f < g
        /\ handled[f].handler /\ handled[f].outcome = "threw"
        /\ handled[g].conn = handled[f].conn
        /\ handled[g].type \in HandlerKinds /\ handled[g].outcome = "returned"
        /\ \E i \in Replies(handled[f].conn, f), j \in Replies(handled[g].conn, g) : i < j

\* C8: a progress message is on the wire of the connection whose frame
\* started the handler, and every earlier message of that frame on the wire
\* is a progress message the handler emitted earlier (so none is a terminal
\* reply).
C8_ProgressOrdered ==
    \A c \in Conns : \A i \in 1..Len(sent[c]) :
        LET m == sent[c][i] IN
        m.type = "progress" =>
            /\ m.frame \in Received
            /\ handled[m.frame].conn = c
            /\ handled[m.frame].handler
            /\ m.seq \in 1..handled[m.frame].emitted
            /\ \A j \in 1..(i - 1) :
                  sent[c][j].frame = m.frame =>
                      /\ sent[c][j].type = "progress"
                      /\ sent[c][j].seq < m.seq

\* an execute_command whose starting, running and done progress are on the
\* wire, followed by its result
C8_Witness ==
    \E f \in Received :
        LET r == handled[f] IN
        /\ r.type = "execute_command"
        /\ r.result = "success:true"
        /\ r.emitted = 3
        /\ Cardinality(Wire(r.conn, f)) = 4
        /\ sent[r.conn][Len(sent[r.conn])].type = "execute_command_result"

\* C9: whenever a socket is open the next frame on it is handled at once,
\* whatever handlers are still running: a malformed frame, an auth frame
\* and, once authenticated, a frame for a handler are all enabled.
C9_DispatchNotBlocked ==
    \A c \in Conns :
        (serverUp /\ readyState[c] = "OPEN" /\ Len(handled) < MaxFrames) =>
            /\ ENABLED OnMalformed(c)
            /\ ENABLED HandleAuth(c, SharedSecret)
            /\ authenticated[c] =>
                  /\ ENABLED (\E t \in SpecTargets : DispatchGetCommits(c, t))
                  /\ ENABLED (\E t \in SpecTargets : DispatchCloneRepo(c, t))

\* a later frame of a connection has its terminal reply while the handler
\* of an earlier frame of that connection still runs
C9_Witness ==
    \E f, g \in Received :
        /\ f < g
        /\ handled[f].conn = handled[g].conn
        /\ handled[f].handler /\ handled[f].pc # "done"
        /\ handled[g].handler /\ handled[g].pc = "done"
        /\ Replies(handled[g].conn, g) # {}
        /\ Replies(handled[f].conn, f) = {}

\* C10: a closed socket is not in the registry; the step that closes it
\* changes no process record, tracked process or history; nothing is put on
\* the wire of a closed socket; and a process that closes with code 0 and
\* non-blank output appends its turn whatever the state of the socket.
C10_CloseLeavesProcess ==
    /\ [](\A c \in Conns : c \in clients <=> readyState[c] = "OPEN")
    /\ [][\A c \in Conns :
            (readyState[c] = "OPEN" /\ readyState'[c] = "CLOSED") =>
                /\ handled' = handled
                /\ activeProcess' = activeProcess
                /\ histories' = histories]_vars
    /\ [][\A c \in Conns : readyState[c] = "CLOSED" => sent'[c] = sent[c]]_vars
    /\ [][\A f \in Received :
            (/\ handled[f].proc = "running"
             /\ handled'[f].proc = "closed"
             /\ handled'[f].code = "0"
             /\ Trim(handled[f].output) # <<>>) =>
                histories'[handled[f].payload] =
                    Append(histories[handled[f].payload],
                           Turn("model", Trim(handled[f].output)))]_vars

\* the process of a closed connection ran to a successful end: its turn is
\* in the history, and its later progress and its result are not on the wire
C10_Witness ==
    \E f \in Received :
        LET r == handled[f] IN
        /\ readyState[r.conn] = "CLOSED"
        /\ r.type = "execute_command"
        /\ r.proc = "closed" /\ r.code = "0" /\ ~r.killed
        /\ r.pc = "done"
        /\ Replies(r.conn, f) = {}
        /\ Cardinality(Wire(r.conn, f)) < r.emitted
        /\ histories[r.payload][Len(histories[r.payload])].role = "model"

\* ------------------------------------------------- properties of the hook
Settled(r) == requests[r].state \in {"resolved", "rejected"}

\* the positions <<kind, i>> of the handler table that hold a closure of
\* request r
HandlersOf(r) ==
    {p \in Kinds \X (1..(2 * Cardinality(Reqs) + Cardinality(Subs))) :
        /\ p[2] <= Len(messageHandlers[p[1]])
        /\ messageHandlers[p[1]][p[2]].fn \in {Fn("result", r), Fn("error", r)}}

\* C11: once a request has settled, by a result, a correlated error, the
\* timeout or a closed transport, the handler table holds neither its result
\* subscription nor its error subscription.
C11_SubscriptionsRemoved ==
    \A r \in Reqs : Settled(r) => HandlersOf(r) = {}

\* r is the only pending request of its kind
OnlyPending(r) ==
    /\ requests[r].state = "pending"
    /\ \A q \in Reqs \ {r} :
          ~(requests[q].state = "pending" /\ requests[q].type = requests[r].type)

\* C12: when a K_result arrives, the pending request of kind K is resolved
\* with its payload, and when an error with originalType K arrives, the
\* pending request of kind K is rejected with its message, whatever requests
\* completed before.
C12_ReplySettlesRequest ==
    [][\A o \in serverOps : \A msg \in Answers(o) :
          RecvReply(o, msg) =>
             \A r \in Reqs :
                OnlyPending(r) =>
                   /\ msg.type = ResultKind(requests[r].type) =>
                         /\ requests'[r].state = "resolved"
                         /\ requests'[r].value = msg.text
                   /\ (msg.type = "error" /\ msg.originalType = requests[r].type) =>
                         /\ requests'[r].state = "rejected"
                         /\ requests'[r].value = msg.text]_vars

\* how a request can end
Outcomes ==
    {<<"resolved", "result">>, <<"rejected", "Handler error">>,
     <<"rejected", "Request timeout">>, <<"rejected", "Not connected">>}

\* C13: a request that is pending settles, its outcome is one of a result, a
\* correlated error, the timeout and the closed transport, an outcome never
\* changes, and the timeout sends nothing and leaves alone what the server
\* does for the frame.
C13_SettlesOnce ==
    /\ [](\A r \in Reqs :
            /\ Settled(r) => <<requests[r].state, requests[r].value>> \in Outcomes
            /\ requests[r].value = "Request timeout" => requests[r].timer = "fired"
            /\ requests[r].value = "Not connected" => requests[r].sock = 0)
    /\ [][\A r \in Reqs :
            /\ Settled(r) => requests'[r] = requests[r]
            /\ Timeout(r) => wire' = wire /\ serverOps' = serverOps]_vars
    /\ \A r \in Reqs : (requests[r].state = "pending") ~> Settled(r)

\* a request rejected by its timer while the server still serves its frame
C13_Witness ==
    \E r \in Reqs :
        /\ requests[r].value = "Request timeout"
        /\ \E o \in serverOps : o.req = r

\* C14: a request made while the transport is not open is rejected at once
\* with "Not connected", sends nothing and leaves every array of the handler
\* table as it was; send reports false exactly when the current transport is
\* not open.
C14_NotConnectedRejects ==
    [][\A r \in Reqs : \A k \in ReqKinds :
          Request(r, k) =>
             /\ ~SendOk =>
                   /\ requests'[r].state = "rejected"
                   /\ requests'[r].value = "Not connected"
                   /\ wire' = wire
                   /\ serverOps' = serverOps
                   /\ messageHandlers' = messageHandlers
             /\ SendOk <=> wire' # wire]_vars

\* a request rejected because the transport was not open
C14_Witness ==
    \E r \in Reqs :
        /\ requests[r].state = "rejected"
        /\ requests[r].value = "Not connected"

\* C15: connect(), called while some transport of the hook is connecting or
\* open, creates no transport and sends nothing.
C15_ConnectIdempotent ==
    [][(Connect /\ \E s \in Sockets : Live(s)) => ws' = ws /\ wire' = wire]_vars

\* C16: the close of a transport that disconnect() did not close sets the
\* reconnect timer; after disconnect(), and until the page calls connect()
\* again, no reconnect timer is pending and none fires.
C16_DisconnectStopsReconnect ==
    /\ [](userClosed => timers = {})
    /\ [][\A s \in Sockets :
            /\ (WsOnClose(s, AbnormalClosure) /\ ws[s].readyState # "CLOSING")
                  => s \in timers'
            /\ ReconnectTimer(s) => ~userClosed]_vars

\* C17: on every transport the first frame is auth with the configured
\* secret, sent when the transport opened, and nothing is sent on a transport
\* that has not opened.
C17_AuthFirst ==
    \A s \in Sockets :
        /\ ws[s].established <=> wire[s] # <<>>
        /\ wire[s] # <<>> => wire[s][1] = Frame("auth", ConfiguredSecret, 0)
        /\ \A i \in 2..Len(wire[s]) : wire[s][i].type # "auth"

\* a request sent on a transport that a reconnection opened
C17_Witness ==
    \E s \in Sockets \ {1} :
        /\ Len(wire[s]) >= 2
        /\ wire[s][2].req # 0

\* the functions in the array of a kind
FnsOf(mh, k) == [i \in 1..Len(mh[k]) |-> mh[k][i].fn]

Count(seq, x) == Cardinality({i \in 1..Len(seq) : seq[i] = x})

Without(seq, x) == SelectSeq(seq, LAMBDA y : y # x)

\* C18: the unsubscribe function of a registration, called for the first
\* time, takes one occurrence of its handler out of the array of its kind
\* and leaves the other handlers of that kind and the other kinds as they
\* were; called again, it changes nothing.
C18_UnsubscribeExact ==
    [][\A n \in 1..Len(regs) :
          Unsubscribe(n) =>
             /\ \A k \in Kinds \ {regs[n].type} :
                   messageHandlers'[k] = messageHandlers[k]
             /\ Without(FnsOf(messageHandlers', regs[n].type), regs[n].fn)
                   = Without(FnsOf(messageHandlers, regs[n].type), regs[n].fn)
             /\ Count(FnsOf(messageHandlers', regs[n].type), regs[n].fn)
                   = Count(FnsOf(messageHandlers, regs[n].type), regs[n].fn)
                       - (IF n \in unsubscribed THEN 0 ELSE 1)]_vars

\* C19: the delivery of a message calls each handler that was subscribed to
\* its type, and each wildcard handler, when the message arrived: each
\* exactly once.
C19_EveryHandlerCalled ==
    \A n \in 1..Len(regs) :
        Count(delivery.invoked, n) = Count(delivery.before, n)

\* ------------------------------------------- properties of GeminiRunner
\* the frames that invoked execute for target t
Executions(t) ==
    {f \in Received :
        /\ handled[f].handler
        /\ handled[f].type = "execute_command"
        /\ handled[f].payload = t}

TurnsOf(t, role) ==
    {i \in 1..Len(histories[t]) : histories[t][i].role = role}

\* the executions whose process has exited with code 0
ExitedZero(t) ==
    {f \in Executions(t) : handled[f].proc = "closed" /\ handled[f].code = "0"}

\* C20: a target's history holds one user turn for each execution on it, and
\* one assistant turn for each of its executions whose process exited with
\* code 0 after writing anything to stdout or stderr.
C20_TurnsPerExecution ==
    \A t \in Targets :
        /\ Cardinality(TurnsOf(t, "user")) = Cardinality(Executions(t))
        /\ Cardinality(TurnsOf(t, "model")) =
              Cardinality({f \in ExitedZero(t) : handled[f].nchunks > 0})

\* C20, amended: a target's history holds one user turn for each execution
\* on it, and one assistant turn for each of its executions whose process
\* exited with code 0 and whose stdout, trimmed, is not empty.
C20_TurnsPerTrimmedOutput ==
    \A t \in Targets :
        /\ Cardinality(TurnsOf(t, "user")) = Cardinality(Executions(t))
        /\ Cardinality(TurnsOf(t, "model")) =
              Cardinality({f \in ExitedZero(t) : Trim(handled[f].output) # <<>>})
        /\ Len(histories[t]) =
              Cardinality(TurnsOf(t, "user")) + Cardinality(TurnsOf(t, "model"))

\* a run that exited with 0 after writing only blanks, and left no assistant
\* turn, beside a run on the other target that left one
C20_Witness ==
    \E t \in Targets : \E u \in Targets \ {t} :
        /\ \E f \in ExitedZero(t) :
              handled[f].output # <<>> /\ Trim(handled[f].output) = <<>>
        /\ TurnsOf(t, "model") = {}
        /\ TurnsOf(u, "model") # {}

\* ------------------------------------------- the turns around one run
\* the run of execution f has ended: its process closed, or never started
Ended(r) == r.proc \in {"closed", "errored"} \/ r.promise = "rejected"

\* a run that failed, was cancelled, could not start or wrote nothing but
\* blanks to stdout
Fruitless(r) ==
    \/ r.promise = "rejected"
    \/ r.proc = "errored"
    \/ r.killed
    \/ r.code # "0"
    \/ Trim(r.output) = <<>>

\* the user turn of a call is in the history once its process is started
UserTurnFirst ==
    \A f \in Received :
        LET r == handled[f] IN
        (r.type = "execute_command" /\ r.handler) =>
            /\ r.turn \in 1..Len(histories[r.payload])
            /\ histories[r.payload][r.turn] = Turn("user", <<r.prompt>>)

\* an assistant turn is appended only by the step in which a process of the
\* target closes with code 0
AssistantTurnAfterExit ==
    \A t \in Targets :
        (/\ Len(histories'[t]) > Len(histories[t])
         /\ histories'[t][Len(histories'[t])].role = "model") =>
            \E f \in Received :
                /\ handled[f].payload = t
                /\ handled[f].proc = "running"
                /\ handled'[f].proc = "closed"
                /\ handled'[f].code = "0"

\* the step that ends a fruitless run leaves the history ending with the
\* user turn of that run
FruitlessRunEndsWithUserTurn ==
    \A f \in 1..Len(handled') :
        LET r == handled'[f] IN
        (/\ r.type = "execute_command" /\ r.handler
         /\ Ended(r)
         /\ f \in Received => ~Ended(handled[f])
         /\ Fruitless(r)) =>
            Len(histories'[r.payload]) = r.turn

\* C21: the user turn of an execute call is in the target's history before
\* its process is started; the assistant turn is appended only after the
\* process has exited with code 0; a run that fails, is cancelled, cannot
\* start or produces empty output leaves the history ending with that call's
\* user turn.
C21_TurnsAroundRun ==
    /\ []UserTurnFirst
    /\ [][AssistantTurnAfterExit]_vars
    /\ [][FruitlessRunEndsWithUserTurn]_vars

\* C22: the history of every target is append-only: across any step (an
\* execute, a cancel, a startSession, an event of a process) the history
\* before the step is an initial part of the history after it.
C22_HistoryAppendOnly ==
    [][\A t \in Targets : IsPrefix(histories[t], histories'[t])]_vars

\* clone_repo went through startSession for a target on which execute had
\* run before, and the history of the target still holds its turns
C22_Witness ==
    \E f \in Received : \E g \in Received :
        /\ handled[f].type = "clone_repo" /\ handled[f].pc = "done"
        /\ handled[f].outcome = "returned"
        /\ handled[g].type = "execute_command" /\ g < f
        /\ handled[g].payload = handled[f].payload
        /\ handled[g].handler
        /\ histories[handled[f].payload] # <<>>

\* the turns of target t that were there when execution f was called
Prior(f) == SubSeq(histories[handled[f].payload], 1, handled[f].turn - 1)

\* C23: the prompt execute(t, p) hands to the process is p alone when the
\* history of t was empty at the call, and otherwise the heading of the
\* previous messages, one line for every turn that was there before the call,
\* in order, labelled User for a user turn and Assistant for an assistant
\* turn, then the heading of the current request and p; the line count shows
\* that the user turn of the call itself is not listed.
C23_PromptCarriesHistory ==
    \A f \in Received :
        LET r == handled[f]
            n == Len(Prior(f))
        IN  (r.type = "execute_command" /\ r.handler) =>
                IF n = 0
                THEN r.fullPrompt = <<<<"", <<r.prompt>>>>>>
                ELSE /\ Len(r.fullPrompt) = n + 3
                     /\ r.fullPrompt[1] = <<"PREVIOUS MESSAGES:", <<>>>>
                     /\ \A i \in 1..n :
                           /\ r.fullPrompt[i + 1][2] = Prior(f)[i].text
                           /\ Prior(f)[i].role = "user" =>
                                 r.fullPrompt[i + 1][1] = "User"
                           /\ Prior(f)[i].role = "model" =>
                                 r.fullPrompt[i + 1][1] = "Assistant"
                     /\ r.fullPrompt[n + 2] = <<"CURRENT REQUEST:", <<>>>>
                     /\ r.fullPrompt[n + 3] = <<"", <<r.prompt>>>>

\* a second execute on a target whose first run left a user turn and an
\* assistant turn: its prompt lists the two under the heading
C23_Witness ==
    \E f \in Received :
        /\ handled[f].type = "execute_command" /\ handled[f].handler
        /\ Len(handled[f].fullPrompt) = 5
        /\ handled[f].fullPrompt[2] = <<"User", <<"add README">>>>
        /\ handled[f].fullPrompt[3] = <<"Assistant", <<"OK">>>>
        /\ \E g \in Received :
              /\ handled[g].type = "execute_command" /\ handled[g].handler
              /\ handled[g].fullPrompt = <<<<"", <<"add README">>>>>>

\* the processes that the step terminates
Terminated == {f \in Received : ~handled[f].killed /\ handled'[f].killed}

\* the step handles a cancel frame for target t, with a handler call
CancelStep(t) ==
    /\ Arrival
    /\ handled'[ThisFrame].type = "cancel"
    /\ handled'[ThisFrame].handler
    /\ handled'[ThisFrame].payload = t

\* C24: cancel(t) terminates only a process that runs for t, and a cancel on
\* a target with no running process terminates nothing and returns false.
C24_CancelPerTarget ==
    [][\A t \in Targets :
          CancelStep(t) =>
              /\ \A f \in Terminated : handled[f].payload = t
              /\ ({f \in Executions(t) : handled[f].proc = "running"} = {}) =>
                    /\ Terminated = {}
                    /\ handled'[ThisFrame].result = "cancelled:false"]_vars

\* the step handles a cancel frame, with a handler call
AnyCancelStep == \E t \in Targets : CancelStep(t)

RunningOn(t) == {f \in Executions(t) : handled[f].proc = "running"}

\* C26: for every target, at most one process is running at any time.
C26_OneProcessPerTarget ==
    \A t \in Targets : Cardinality(RunningOn(t)) <= 1

\* the kinds whose handler changes the working directory through GitManager
MutatingKinds == {"clone_repo", "commit_changes", "rollback"}

\* the frames whose repository operation on target t is in progress
MutatingOn(t) ==
    {f \in Received :
        /\ handled[f].type \in MutatingKinds
        /\ handled[f].payload = t
        /\ handled[f].pc = "git"}

\* C27: no two repository-mutating operations are in progress on one target
\* at once.
C27_GitExclusive ==
    \A t \in Targets : Cardinality(MutatingOn(t)) <= 1

\* C28: the promise of execute resolves, with success = (code is 0), in the
\* step in which a process that ran closes, whatever the code (null for a
\* killed one); it rejects only in a step in which no process could be
\* started (the spawn failed, or the prompt file could not be written);
\* a settled promise keeps its outcome; and the step that settles it leaves
\* the process untracked.
C28_ExitIsResultNotFault ==
    /\ [](\A f \in Received :
            LET r == handled[f] IN
            (r.type = "execute_command" /\ r.handler) =>
                /\ r.promise \in {"pending", "resolved:true", "resolved:false",
                                  "rejected"}
                /\ r.promise = "pending" <=> r.proc = "running"
                /\ r.promise # "pending" => activeProcess # f)
    /\ [][\A f \in Received :
            (handled[f].proc = "running" /\ handled'[f].proc = "closed") =>
                /\ handled'[f].promise =
                      IF handled'[f].code = "0" THEN "resolved:true"
                      ELSE "resolved:false"
                /\ handled'[f].outcome = "returned"
                /\ activeProcess' = 0]_vars
    /\ [][\A f \in 1..Len(handled') :
            (/\ handled'[f].promise = "rejected"
             /\ f \in Received => handled[f].promise # "rejected") =>
                /\ \/ f \notin Received /\ handled'[f].proc = "none"
                   \/ /\ f \in Received
                      /\ handled[f].proc = "running"
                      /\ handled'[f].proc = "errored"
                      /\ handled[f].written = <<>>
                /\ activeProcess' # f]_vars
    /\ [][\A f \in Received :
            handled[f].promise \in {"resolved:true", "resolved:false", "rejected"} =>
                handled'[f].promise = handled[f].promise]_vars

\* one run wrote output and exited with code 1, and resolved with success =
\* false; the process of another could not be started, and it rejected
C28_Witness ==
    \E f \in Received : \E g \in Received :
        /\ handled[f].promise = "resolved:false"
        /\ handled[f].code = "1" /\ handled[f].written # <<>>
        /\ handled[g].promise = "rejected"
        /\ handled[g].proc \in {"errored", "closed"}

\* what onOutput received by the time the handler's callback wrapped it
Forwarded(r) == [i \in 1..Len(r.onOutput) |-> <<r.onOutput[i][2], r.onOutput[i][3]>>]

\* the chunks of a sequence that are not noise on stderr
RECURSIVE Audible(_)
Audible(seq) ==
    IF seq = <<>> THEN <<>>
    ELSE IF seq[1][1] = "stderr" /\ IsNoise(seq[1][2])
         THEN Audible(Tail(seq))
         ELSE <<seq[1]>> \o Audible(Tail(seq))

C30_ProbeDecides ==
    /\ geminiAvailable.value \in {"-", "true", "false"}
    /\ geminiAvailable.value = "true" => geminiAvailable.probe = "exit:0"
    /\ geminiAvailable.probe \in {"error", "exit:1", "killed"} =>
          geminiAvailable.value = "false"

\* the processes that run and that no cancel has terminated
Alive == {f \in Received : handled[f].proc = "running" /\ ~handled[f].killed}

\* C35: a process is tracked exactly while a process is running (one that a
\* cancel has killed and that has not closed yet counts as not running), and
\* a cancel handled while a process is running returns true.
C35_TrackedWhileRunning ==
    /\ [](activeProcess # 0 <=> Alive # {})
    /\ [][(AnyCancelStep /\ Alive # {}) =>
            handled'[ThisFrame].result = "cancelled:true"]_vars

\* the transports the hook created that are connecting or open
LiveSockets == {s \in Sockets : Live(s)}

\* C36: the hook holds at most one live transport and wsRef points to it;
\* the close event of an earlier transport does not clear a reference that
\* points to a newer one.
C36_OneLiveTransport ==
    /\ [](/\ Cardinality(LiveSockets) <= 1
          /\ \A s \in LiveSockets : wsRef = s)
    /\ [][\A s \in Sockets :
            (wsRef # 0 /\ wsRef # s /\ ws[s].readyState # "CLOSED"
             /\ ws'[s].readyState = "CLOSED") => wsRef' = wsRef]_vars

\* C37: isAuthenticated implies isConnected and an open current transport;
\* it becomes true only when auth_success arrives on the current transport;
\* it is false after a close event and after an auth_failed.
C37_AuthenticatedMeansOpen ==
    /\ [](isAuthenticated =>
            /\ isConnected
            /\ wsRef # 0
            /\ ws[wsRef].readyState = "OPEN")
    /\ [][(~isAuthenticated /\ isAuthenticated') =>
            /\ lastMessage'.type = "auth_success"
            /\ wsRef # 0
            /\ ws[wsRef].srv = "welcomed" /\ ws'[wsRef].srv = "authed"]_vars
    /\ [][(\E s \in Sockets :
              \/ ws[s].readyState # "CLOSED" /\ ws'[s].readyState = "CLOSED"
              \/ ws[s].srv = "welcomed" /\ ws'[s].srv = "refused") =>
            ~isAuthenticated']_vars

\* the calls of request for kind k whose promise is pending
PendingOf(k) ==
    {r \in Calls : requests[r].state = "pending" /\ requests[r].type = k}

\* the step delivers a result of kind k
ResultStep(k) ==
    /\ serverOps' # serverOps
    /\ ws' = ws
    /\ lastMessage'.type = ResultKind(k)

\* C38: while several requests of one kind are pending, a result of that
\* kind settles exactly one of them, the oldest.
C38_ResultsInIssueOrder ==
    [][\A k \in ReqKinds :
          (ResultStep(k) /\ Cardinality(PendingOf(k)) >= 2) =>
              {r \in PendingOf(k) : requests'[r].state # "pending"} =
                  {CHOOSE r \in PendingOf(k) : \A q \in PendingOf(k) : r <= q}]_vars

\* the calls of commit_changes, and those that are at git status while
\* nothing is changed in the working tree or in the index
Commits == {f \in Received : handled[f].type = "commit_changes"}

AtStatusOfClean ==
    {f \in Commits : /\ handled[f].pc = "git"
                     /\ handled[f].op = "status"
                     /\ StatusFiles(repos[handled[f].payload]) = {}}

\* C31: commit_changes on a clean working tree returns committed false and
\* changes nothing: the step that takes the call on from git status ends it,
\* the value it returns is committed false, and the branch, the origin, the
\* index and the files are as before; a call that returned committed false
\* has created no commit and pushed nothing.
C31_CleanTreeNoCommit ==
    /\ [][\A f \in AtStatusOfClean :
            handled'[f] # handled[f] =>
                /\ handled'[f].pc = "done"
                /\ handled'[f].outcome = "returned" =>
                       handled'[f].result = "committed:false"
                /\ repos' = repos]_vars
    /\ [](\A f \in Commits :
            handled[f].result = "committed:false" =>
                handled[f].made = <<>> /\ handled[f].pushed = <<>>)

\* a call on a clean working copy has returned committed false, and the
\* branch and the origin are what they were when the server started
C31_Witness ==
    \E f \in Commits :
        /\ handled[f].result = "committed:false"
        /\ repos[handled[f].payload].local = Origin
        /\ repos[handled[f].payload].remote = Origin

\* the step in which the call of frame f returns a value
Returns(f) ==
    /\ handled[f].pc # "done"
    /\ handled'[f].pc = "done"
    /\ handled'[f].outcome = "returned"

\* C39: whenever commit_changes returns a value, committed true or false,
\* the origin's branch holds every commit of the local branch (stated for a
\* call that is the only one changing the repository when it returns).
C39_ReturnMeansPushed ==
    [][\A f \in Commits :
          (Returns(f) /\ MutatingOn(handled[f].payload) = {f}) =>
              \A i \in 1..Len(repos'[handled[f].payload].local) :
                 \E j \in 1..Len(repos'[handled[f].payload].remote) :
                    repos'[handled[f].payload].remote[j] =
                       repos'[handled[f].payload].local[i]]_vars

\* C40: the prompt file of an execute is in the working directory only while
\* the process of that call runs, and no commit, here or at the origin,
\* holds a prompt file.
C40_PromptFileNeverCommitted ==
    /\ [](\A t \in Targets : \A f \in Paths \ {0} :
            repos[t].work[f] # 0 =>
                /\ f \in Received
                /\ handled[f].payload = t
                /\ handled[f].proc = "running")
    /\ [](\A t \in Targets : \A f \in Paths \ {0} :
            /\ \A i \in 1..Len(repos[t].local) : repos[t].local[i].tree[f] = 0
            /\ \A i \in 1..Len(repos[t].remote) : repos[t].remote[i].tree[f] = 0)

\* C34: when execute_command returns success, the change its process made
\* to the source file is committed and pushed: the file is not listed by git
\* status and a commit of the origin's branch holds the version written.
C34_SuccessMeansPushed ==
    [][\A f \in Received :
          (/\ handled[f].type = "execute_command"
           /\ Returns(f)
           /\ handled'[f].result = "success:true"
           /\ repos[handled[f].payload].work[0] = Edited(f)) =>
              /\ 0 \notin StatusFiles(repos'[handled[f].payload])
              /\ \E j \in 1..Len(repos'[handled[f].payload].remote) :
                    repos'[handled[f].payload].remote[j].tree[0] = Edited(f)]_vars

\* the calls of clone_repo for target t that have returned
Clones(t) ==
    {f \in Received : /\ handled[f].type = "clone_repo"
                      /\ handled[f].payload = t
                      /\ handled[f].outcome = "returned"}

\* C33: clone_repo clones a target that has no working copy and returns
\* cloned, and pulls in every later call and returns pulled; a working copy
\* once there is never removed.
C33_CloneOncePullAfter ==
    /\ [][\A t \in Targets : exists[t] => exists'[t]]_vars
    /\ [][\A f \in Received :
            (handled[f].type = "clone_repo" /\ Returns(f)) =>
                /\ handled'[f].result = "cloned" =>
                      /\ ~exists[handled[f].payload]
                      /\ exists'[handled[f].payload]
                      /\ repos'[handled[f].payload].local =
                            repos[handled[f].payload].remote
                /\ handled'[f].result = "pulled" => exists[handled[f].payload]]_vars
    /\ [](\A t \in Targets : \A f \in Clones(t), g \in Clones(t) :
            (f < g /\ handled[f].result = "cloned") => handled[g].result = "pulled")
    /\ [][\A t \in Targets :
            (~exists[t] /\ Len(handled') = Len(handled) + 1
             /\ handled'[Len(handled')].type = "clone_repo"
             /\ handled'[Len(handled')].payload = t
             /\ handled'[Len(handled')].pc = "git") =>
                handled'[Len(handled')].op = "clone"]_vars

\* a target was cloned by one call and pulled by the next
C33_Witness ==
    \E t \in Targets : \E f \in Clones(t), g \in Clones(t) :
        /\ f < g
        /\ handled[f].result = "cloned"
        /\ handled[g].result = "pulled"

\* C32: when rollback returns a value, the local branch and the origin's
\* branch both end at the commit the call named, and a get_commits that
\* returns lists the latest commit of the local branch first.
C32_RollbackEndsAtHash ==
    [][\A f \in Received :
          /\ (handled[f].type = "rollback" /\ Returns(f)) =>
                /\ repos'[handled[f].payload].local # <<>>
                /\ Tip(repos'[handled[f].payload].local) = handled[f].hash.tree
                /\ repos'[handled[f].payload].local[
                      Len(repos'[handled[f].payload].local)] = handled[f].hash
                /\ repos'[handled[f].payload].remote =
                      repos'[handled[f].payload].local
          /\ (handled[f].type = "get_commits" /\ Returns(f)
              /\ exists[handled[f].payload]) =>
                handled'[f].log[1] =
                   repos[handled[f].payload].local[
                      Len(repos[handled[f].payload].local)]]_vars

====
